---- MODULE Spec2Model ----
(***************************************************************************)
(* Model of serde-reflection/src/enum_tracker.rs: the EnumTracker that     *)
(* remembers, between sampling passes, which variant of every enum has     *)
(* been handed out, and the Node state machine it is built on.             *)
(*                                                                         *)
(* Node ids are 0-based as in the source (positions in Vec<Node>); the     *)
(* node with id i is nodes[i + 1].                                         *)
(***************************************************************************)
EXTENDS Integers, Sequences, FiniteSets, TLC

VARIABLES
    nodes,        \* EnumTracker.nodes: Vec<Node>
    breadcrumbs,  \* EnumTracker.breadcrumbs: Vec<usize>
    status,       \* "ok", or how the process died: "panic" | "overflow"
    ret,          \* the last call that returned a value, and the value
    opened,       \* history: names ever passed to open_node
    shape,        \* the type the sampler walks (SpecWalk), "none" under Spec
    obedient,     \* sampler realizes the variant next_variant_index returned
    frames,       \* the sampler's own recursion: <<[name, variant, pos]>>
    passes,       \* full passes finished by the sampler
    handed,       \* history: name -> variant indices handed to the sampler
    done          \* history: all_complete() has returned true between passes

vars == <<nodes, breadcrumbs, status, ret, opened, shape, obedient, frames,
          passes, handed, done>>

tracker == <<nodes, breadcrumbs, status>>
sampler == <<shape, obedient, frames, passes, handed, done>>

----------------------------------------------------------------------------
(* Bounds of the model *)

MaxDepth == 3        \* open_node calls nested inside one another under Spec
MaxWalkDepth == 4    \* enums the sampler is inside of at once under SpecWalk
MaxVariant == 2      \* largest max_index passed to open_node under Spec
MaxPasses == 6       \* passes the sampler makes under SpecWalk

\* the enum names of the tests, in the order a caller first opens them
AllNames == <<"enum1", "enum1child1", "enum1child2", "enum1child2child1">>

\* the names opened under Spec
Names == {"enum1", "enum1child1"}

Range(s) == {s[i] : i \in DOMAIN s}

Last(s) == s[Len(s)]

Front(s) == SubSeq(s, 1, Len(s) - 1)

MinOf(S) == CHOOSE k \in S : \A j \in S : k <= j

----------------------------------------------------------------------------
(* Node *)

NodeState == {"Discovery", "Completion", "Completed"}

NoChildren == [k \in {} |-> 0]

\* BTreeMap::entry(k).or_insert(v): an occupied key keeps its value
MapInsert_keep(m, k, v) ==
    [j \in DOMAIN m \cup {k} |-> IF j \in DOMAIN m THEN m[j] ELSE v]

\* BTreeMap::insert
MapInsert(m, k, v) == [j \in DOMAIN m \cup {k} |-> IF j = k THEN v ELSE m[j]]

\* Node::new
Node_new(name, max_index) ==
    [name |-> name, this |-> 0, index |-> 0, max_index |-> max_index,
     children |-> NoChildren, state |-> "Discovery",
     recursive_variants |-> <<>>]

\* advance_index that leaves Discovery straight for Completed
advance_index_nophase(self, variant_complete) ==
    IF self.index = self.max_index
    THEN IF self.state \in {"Discovery", "Completion"} \/ variant_complete
         THEN [self EXCEPT !.state = "Completed"]
         ELSE self
    ELSE IF self.index < self.max_index
            /\ self.state \in {"Discovery", "Completion"}
         THEN [self EXCEPT !.index = self.index + 1]
         ELSE self

\* advance_index without the cursor reset of line 169
advance_index_noreset(self, variant_complete) ==
    IF self.index = self.max_index
    THEN IF self.state = "Discovery"
         THEN [self EXCEPT !.state = "Completion"]
         ELSE IF self.state = "Completion" \/ variant_complete
              THEN [self EXCEPT !.state = "Completed"]
              ELSE self
    ELSE IF self.index < self.max_index
            /\ self.state \in {"Discovery", "Completion"}
         THEN [self EXCEPT !.index = self.index + 1]
         ELSE self

\* advance_index that starts the node over at the end of Completion
advance_index_restart(self, variant_complete) ==
    IF self.index = self.max_index
    THEN IF self.state = "Discovery"
         THEN [self EXCEPT !.state = "Completion", !.index = 0]
         ELSE IF self.state = "Completion"
              THEN [self EXCEPT !.state = "Discovery", !.index = 0]
              ELSE self
    ELSE IF self.index < self.max_index
            /\ self.state \in {"Discovery", "Completion"}
         THEN [self EXCEPT !.index = self.index + 1]
         ELSE self

\* advance_index without the `index < max_index` test of line 174
advance_index_unguarded(self, variant_complete) ==
    IF self.index = self.max_index /\ self.state = "Discovery"
    THEN [self EXCEPT !.state = "Completion", !.index = 0]
    ELSE IF self.index = self.max_index
            /\ (self.state = "Completion" \/ variant_complete)
         THEN [self EXCEPT !.state = "Completed", !.index = self.index + 1]
         ELSE IF self.state \in {"Discovery", "Completion"}
              THEN [self EXCEPT !.index = self.index + 1]
              ELSE self

\* Node::advance_index
advance_index(self, variant_complete) ==
    IF self.index = self.max_index
    THEN IF self.state = "Discovery"
         THEN [self EXCEPT !.state = "Completion", !.index = 0]
         ELSE IF self.state = "Completion" \/ variant_complete
              THEN [self EXCEPT !.state = "Completed"]
              ELSE self
    ELSE IF self.index < self.max_index
            /\ self.state \in {"Discovery", "Completion"}
         THEN [self EXCEPT !.index = self.index + 1]
         ELSE self

(***************************************************************************)
(* Node::complete.  The source recurses through children with no visited   *)
(* set; `.all` walks the BTreeMap in key order and stops at the first      *)
(* false.  The node table does not change during the evaluation, so a      *)
(* node entered again while its own children are being walked repeats the  *)
(* same calls for ever: the call never returns and the stack overflows.    *)
(* path is the set of nodes whose children are being walked; the result    *)
(* is "true", "false" or "overflow".                                       *)
(***************************************************************************)
RECURSIVE complete(_, _, _)
RECURSIVE all_children(_, _, _, _)

all_children(ns, self, keys, path) ==
    IF keys = {} THEN "true"
    ELSE LET k == MinOf(keys)
             r == complete(ns, self.children[k], path)
         IN  IF r = "true"
             THEN all_children(ns, self, keys \ {k}, path)
             ELSE r

complete(ns, id, path) ==
    LET self == ns[id + 1] IN
    IF self.state = "Completed" THEN "true"
    ELSE IF ~(self.index = self.max_index /\ self.state = "Completion")
    THEN "false"
    ELSE IF id \in path THEN "overflow"
    ELSE all_children(ns, self, DOMAIN self.children, path \cup {id})

----------------------------------------------------------------------------
(* EnumTracker *)

\* node_exists with the `.skip(nearest_ancestor)` of line 58 put back, for a
\* nearest ancestor at position 1
node_exists_skip(ns, name) ==
    \E i \in DOMAIN ns : i > 1 /\ ns[i].name = name

\* EnumTracker::node_exists
node_exists(ns, name) == \E i \in DOMAIN ns : ns[i].name = name

\* Iterator::position in get_active_node(Some(name)): first match, 0-based
position(ns, name) ==
    MinOf({i \in DOMAIN ns : ns[i].name = name}) - 1

NoReturn == [call |-> "none", value |-> 0]

Result(ns, bc, st) == [nodes |-> ns, breadcrumbs |-> bc, status |-> st]

\* the recursion guard of open_node (lines 36-48)
recursion_guard(ns, bc, index) ==
    IF index \in Range(bc)
    THEN LET parent == ns[index + 1] IN
         IF parent.index \notin Range(parent.recursive_variants)
         THEN LET p1 == advance_index(parent, TRUE)
                  p2 == [p1 EXCEPT
                           !.children = MapInsert(p1.children, p1.index, p1.this),
                           !.recursive_variants = Append(@, p1.index)]
              IN  [ns EXCEPT ![index + 1] = p2]
         ELSE ns
    ELSE ns

\* open_node with the child registration of lines 28-31 moved out of the
\* branch that creates the node: a reused node is registered again under
\* the active node
open_node_always_register(ns, bc, name, max_index) ==
    LET exists == node_exists(ns, name)
        index == IF exists THEN ns[position(ns, name) + 1].this ELSE Len(ns)
        ns1 == IF exists THEN ns
               ELSE Append(ns, [Node_new(name, max_index) EXCEPT !.this = index])
    IN  IF bc = <<>>
        THEN IF Len(ns1) > 1 /\ ~exists
             THEN Result(ns1, bc, "panic")
             ELSE Result(ns1, Append(bc, index), "ok")
        ELSE LET p == Last(bc) + 1
                 ns2 == [ns1 EXCEPT ![p].children =
                           MapInsert(@, ns1[p].index, index)]
             IN  Result(recursion_guard(ns2, bc, index), Append(bc, index), "ok")

\* open_node that restarts the sweep of a reused node: the cursor of an
\* existing node goes back to 0 when it is opened
open_node_reset(ns, bc, name, max_index) ==
    IF node_exists(ns, name)
    THEN LET index == ns[position(ns, name) + 1].this
             ns0 == [ns EXCEPT ![index + 1].index = 0]
         IN  Result(recursion_guard(ns0, bc, index), Append(bc, index), "ok")
    ELSE LET index == Len(ns)
             node == [Node_new(name, max_index) EXCEPT !.this = index]
             ns1 == Append(ns, node)
         IN  IF Len(ns1) > 1
             THEN IF bc = <<>>
                  THEN Result(ns1, bc, "panic")
                  ELSE LET p == Last(bc) + 1
                           ns2 == [ns1 EXCEPT ![p].children =
                                     MapInsert(@, ns1[p].index, index)]
                       IN  Result(recursion_guard(ns2, bc, index),
                                  Append(bc, index), "ok")
             ELSE Result(recursion_guard(ns1, bc, index),
                         Append(bc, index), "ok")

\* EnumTracker::open_node
open_node(ns, bc, name, max_index) ==
    IF node_exists(ns, name)
    THEN LET index == ns[position(ns, name) + 1].this IN
         Result(recursion_guard(ns, bc, index), Append(bc, index), "ok")
    ELSE LET index == Len(ns)
             node == [Node_new(name, max_index) EXCEPT !.this = index]
             ns1 == Append(ns, node)
         IN  IF Len(ns1) > 1
             THEN IF bc = <<>>
                  THEN \* get_active_node(None): breadcrumbs.last().unwrap()
                       Result(ns1, bc, "panic")
                  ELSE LET p == Last(bc) + 1
                           ns2 == [ns1 EXCEPT ![p].children =
                                     MapInsert(@, ns1[p].index, index)]
                       IN  Result(recursion_guard(ns2, bc, index),
                                  Append(bc, index), "ok")
             ELSE Result(recursion_guard(ns1, bc, index),
                         Append(bc, index), "ok")

\* active.advance_index(..) through get_active_node(None)
advance_active(ns, bc, variant_complete) ==
    [ns EXCEPT ![Last(bc) + 1] = advance_index(@, variant_complete)]

\* EnumTracker::advance_variant
advance_variant(ns, bc) ==
    IF bc = <<>> THEN Result(ns, bc, "panic")
    ELSE
    LET active == ns[Last(bc) + 1]
        c == complete(ns, active.this, {})
    IN  IF c = "overflow" THEN Result(ns, bc, "overflow")
        ELSE IF c = "true" \/ active.state = "Discovery"
                \/ active.children = NoChildren
        THEN Result(advance_active(ns, bc, FALSE), bc, "ok")
        ELSE IF active.index \in DOMAIN active.children
        THEN LET cc == complete(ns, active.children[active.index], {}) IN
             IF cc = "overflow" THEN Result(ns, bc, "overflow")
             ELSE IF cc = "true"
             THEN Result(advance_active(ns, bc, TRUE), bc, "ok")
             ELSE Result(ns, bc, "ok")
        ELSE Result(advance_active(ns, bc, FALSE), bc, "ok")

\* close_node that tolerates an empty stack: `if let Some(..)` without the
\* unreachable!() of line 87, and Vec::pop on an empty Vec is a no-op
close_node_lenient(ns, bc) ==
    IF bc = <<>> THEN Result(ns, bc, "ok")
    ELSE LET r == advance_variant(ns, bc) IN
         IF r.status = "ok" THEN Result(r.nodes, Front(bc), "ok") ELSE r

\* EnumTracker::close_node
close_node(ns, bc) ==
    LET r == advance_variant(ns, bc) IN
    IF r.status = "ok" THEN Result(r.nodes, Front(bc), "ok") ELSE r

\* all_complete with `!nodes.is_empty() &&` for the `nodes.len() == 0 ||`
\* of line 124
all_complete_strict(ns) ==
    IF Len(ns) = 0 THEN "false" ELSE complete(ns, 0, {})

\* EnumTracker::all_complete: "true", "false" or "overflow"
all_complete(ns) ==
    IF Len(ns) = 0 THEN "true" ELSE complete(ns, 0, {})

\* EnumTracker::next_variant_index: the cursor of the active node; with
\* nothing open breadcrumbs.last().unwrap() panics
next_variant_index(ns, bc) ==
    IF bc = <<>> THEN [status |-> "panic", value |-> 0]
    ELSE [status |-> "ok", value |-> ns[Last(bc) + 1].index]

----------------------------------------------------------------------------
(* Spec: any caller.  Every sequence of calls whose opens nest at most     *)
(* MaxDepth deep, over the names of Names.                                 *)

\* EnumTracker::new
Init ==
    /\ nodes = <<>>
    /\ breadcrumbs = <<>>
    /\ status = "ok"
    /\ ret = NoReturn
    /\ opened = {}
    /\ shape = "none"
    /\ obedient = TRUE
    /\ frames = <<>>
    /\ passes = 0
    /\ handed = <<>>
    /\ done = FALSE

Open(name, max_index) ==
    /\ status = "ok"
    /\ Len(breadcrumbs) < MaxDepth
    /\ LET r == open_node(nodes, breadcrumbs, name, max_index) IN
       /\ nodes' = r.nodes
       /\ breadcrumbs' = r.breadcrumbs
       /\ status' = r.status
    /\ ret' = NoReturn
    /\ opened' = opened \cup {name}
    /\ UNCHANGED sampler

Close ==
    /\ status = "ok"
    /\ LET r == close_node(nodes, breadcrumbs) IN
       /\ nodes' = r.nodes
       /\ breadcrumbs' = r.breadcrumbs
       /\ status' = r.status
    /\ ret' = NoReturn
    /\ UNCHANGED <<opened, sampler>>

NextVariantIndex ==
    /\ status = "ok"
    /\ LET r == next_variant_index(nodes, breadcrumbs) IN
       IF r.status = "panic"
       THEN /\ status' = "panic"
            /\ ret' = NoReturn
       ELSE /\ status' = status
            /\ ret' = [call |-> "next_variant_index", value |-> r.value]
    /\ UNCHANGED <<nodes, breadcrumbs, opened, sampler>>

\* the sampler has finished at least one pass and has nothing open
BetweenPasses ==
    /\ Len(frames) = 1
    /\ frames[1].pos = 0
    /\ passes >= 1

AllComplete ==
    /\ status = "ok"
    /\ LET r == all_complete(nodes) IN
       IF r = "overflow"
       THEN /\ status' = "overflow"
            /\ ret' = NoReturn
            /\ done' = done
       ELSE /\ status' = status
            /\ ret' = [call |-> "all_complete", value |-> (r = "true")]
            /\ done' = (done \/ (r = "true" /\ BetweenPasses))
    /\ UNCHANGED <<nodes, breadcrumbs, opened, shape, obedient, frames,
                   passes, handed>>

(***************************************************************************)
(* open_node only compares names for equality, so which string a new enum  *)
(* carries does not matter: a caller that opens a name the tracker has not *)
(* seen opens the next unused one of AllNames.                             *)
(***************************************************************************)
Openable ==
    {n \in Names : \/ n \in opened
                   \/ \E i \in DOMAIN AllNames :
                        /\ AllNames[i] = n
                        /\ \A j \in 1..(i - 1) : AllNames[j] \in opened}

Next ==
    \/ \E name \in Openable, max_index \in 0..MaxVariant :
          Open(name, max_index)
    \/ Close
    \/ NextVariantIndex
    \/ AllComplete

Spec == Init /\ [][Next]_vars

----------------------------------------------------------------------------
(* SpecWalk: the sampler of spec section 4.3.  It walks one fixed type,    *)
(* pass after pass: open_node on entering an enum, next_variant_index to   *)
(* learn which variant to build, the enums of that variant's payload one   *)
(* after the other, close_node on leaving.  A type is its top-level enums  *)
(* and, per enum, the payload (a sequence of enum names) of each variant.  *)

NoPayload == <<>>

\* basic_tree and the trace of test_enum_tracker_can_add_new_enum_with_children
TreeShape ==
    [top |-> <<"enum1">>,
     enums |-> [n \in {"enum1", "enum1child1", "enum1child2",
                       "enum1child2child1"} |->
                  CASE n = "enum1" -> << <<"enum1child1">>, <<"enum1child2">> >>
                    [] n = "enum1child1" -> << NoPayload >>
                    [] n = "enum1child2" -> << <<"enum1child2child1">> >>
                    [] n = "enum1child2child1" -> << NoPayload >>]]

\* one variant holding a two-variant enum (spec section 8, property 4)
TwoPhaseShape ==
    [top |-> <<"enum1">>,
     enums |-> [n \in {"enum1", "enum1child1"} |->
                  CASE n = "enum1" -> << <<"enum1child1">> >>
                    [] n = "enum1child1" -> << NoPayload, NoPayload >>]]

\* test_enum_tracker_handles_recursion: the second variant is Box<Self>
SelfLastShape ==
    [top |-> <<"enum1">>,
     enums |-> [n \in {"enum1", "enum1child1"} |->
                  CASE n = "enum1" -> << <<"enum1child1">>, <<"enum1">> >>
                    [] n = "enum1child1" -> << NoPayload >>]]

\* the first variant is Box<Self>, the second a unit variant
SelfFirstShape ==
    [top |-> <<"enum1">>,
     enums |-> [n \in {"enum1"} |-> << <<"enum1">>, NoPayload >>]]

\* the first variant is Box<Self>, the second holds another enum
SelfChildShape ==
    [top |-> <<"enum1">>,
     enums |-> [n \in {"enum1", "enum1child1"} |->
                  CASE n = "enum1" -> << <<"enum1">>, <<"enum1child1">> >>
                    [] n = "enum1child1" -> << NoPayload >>]]

\* one variant whose payload holds two enums, the first with three variants
SiblingsShape ==
    [top |-> <<"enum1">>,
     enums |-> [n \in {"enum1", "enum1child1", "enum1child2"} |->
                  CASE n = "enum1" -> << <<"enum1child1", "enum1child2">> >>
                    [] n = "enum1child1" -> << NoPayload, NoPayload, NoPayload >>
                    [] n = "enum1child2" -> << NoPayload >>]]

\* a struct with two enum fields: two top-level occurrences per pass
TwoTopShape ==
    [top |-> <<"enum1", "enum1child1">>,
     enums |-> [n \in {"enum1", "enum1child1"} |-> << NoPayload >>]]

\* two enums that hold each other
MutualShape ==
    [top |-> <<"enum1">>,
     enums |-> [n \in {"enum1", "enum1child1"} |->
                  CASE n = "enum1" -> << <<"enum1child1">>, NoPayload >>
                    [] n = "enum1child1" -> << <<"enum1">>, NoPayload >>]]

\* a one-variant enum holding a three-variant enum whose middle variant
\* holds the first again
MutualMidShape ==
    [top |-> <<"enum1">>,
     enums |-> [n \in {"enum1", "enum1child1"} |->
                  CASE n = "enum1" -> << <<"enum1child1">> >>
                    [] n = "enum1child1" -> << NoPayload, <<"enum1">>, NoPayload >>]]

ShapeNames == {"tree", "twophase", "selflast", "selffirst", "selfchild",
               "siblings", "twotop", "mutual", "mutualmid"}

ShapeDef(s) ==
    CASE s = "tree" -> TreeShape
      [] s = "twophase" -> TwoPhaseShape
      [] s = "selflast" -> SelfLastShape
      [] s = "selffirst" -> SelfFirstShape
      [] s = "selfchild" -> SelfChildShape
      [] s = "siblings" -> SiblingsShape
      [] s = "twotop" -> TwoTopShape
      [] s = "mutual" -> MutualShape
      [] s = "mutualmid" -> MutualMidShape

\* basic_tree() of the tests: the table the four-pass trace must produce
basic_tree ==
    << [name |-> "enum1", this |-> 0, index |-> 1, max_index |-> 1,
        children |-> (0 :> 1) @@ (1 :> 2), state |-> "Completed",
        recursive_variants |-> <<>>],
       [name |-> "enum1child1", this |-> 1, index |-> 0, max_index |-> 0,
        children |-> NoChildren, state |-> "Completed",
        recursive_variants |-> <<>>],
       [name |-> "enum1child2", this |-> 2, index |-> 0, max_index |-> 0,
        children |-> (0 :> 3), state |-> "Completed",
        recursive_variants |-> <<>>],
       [name |-> "enum1child2child1", this |-> 3, index |-> 0, max_index |-> 0,
        children |-> NoChildren, state |-> "Completed",
        recursive_variants |-> <<>>] >>

\* max_index = variant count - 1 (spec section 6)
MaxIndexOf(s, name) == Len(ShapeDef(s).enums[name]) - 1

\* the frame of the value that holds the top-level enums
RootFrame == [name |-> "", variant |-> 0, pos |-> 0]

NotAsked == -1

Payload(s, f) ==
    IF f.name = "" THEN ShapeDef(s).top
    ELSE ShapeDef(s).enums[f.name][f.variant + 1]

AtRest == Len(frames) = 1 /\ frames[1].pos = 0

InitWalk ==
    /\ nodes = <<>>
    /\ breadcrumbs = <<>>
    /\ status = "ok"
    /\ ret = NoReturn
    /\ opened = {}
    /\ shape \in ShapeNames
    /\ obedient \in BOOLEAN
    /\ frames = <<RootFrame>>
    /\ passes = 0
    /\ handed = [n \in DOMAIN ShapeDef(shape).enums |-> {}]
    /\ done = FALSE

\* the sampler enters the next enum of the payload it is building
WalkOpen ==
    /\ status = "ok"
    /\ Len(breadcrumbs) < MaxWalkDepth
    /\ LET f == Last(frames) IN
       /\ f.variant # NotAsked
       /\ f.pos < Len(Payload(shape, f))
       /\ Len(frames) = 1 => passes < MaxPasses
       /\ LET name == Payload(shape, f)[f.pos + 1]
              r == open_node(nodes, breadcrumbs, name, MaxIndexOf(shape, name))
          IN  /\ nodes' = r.nodes
              /\ breadcrumbs' = r.breadcrumbs
              /\ status' = r.status
              /\ opened' = opened \cup {name}
              /\ frames' = IF r.status = "ok"
                           THEN Append(frames, [name |-> name,
                                                variant |-> NotAsked,
                                                pos |-> 0])
                           ELSE frames
    /\ ret' = NoReturn
    /\ UNCHANGED <<shape, obedient, passes, handed, done>>

\* the sampler asks which variant to build and commits to one
WalkNext ==
    /\ status = "ok"
    /\ Last(frames).variant = NotAsked
    /\ LET f == Last(frames)
           r == next_variant_index(nodes, breadcrumbs)
       IN  /\ r.status = "ok"
           /\ ret' = [call |-> "next_variant_index", value |-> r.value]
           /\ handed' = [handed EXCEPT ![f.name] = @ \cup {r.value}]
           /\ \E v \in 0..MaxIndexOf(shape, f.name) :
                 /\ obedient => v = r.value
                 /\ frames' = [frames EXCEPT ![Len(frames)].variant = v]
    /\ UNCHANGED <<nodes, breadcrumbs, status, opened, shape, obedient, passes,
                   done>>

\* the sampler has built the whole payload and leaves the enum
WalkClose ==
    /\ status = "ok"
    /\ Len(frames) > 1
    /\ LET f == Last(frames) IN
       /\ f.variant # NotAsked
       /\ f.pos = Len(Payload(shape, f))
    /\ LET r == close_node(nodes, breadcrumbs)
           up == Front(frames)
           parent == Last(up)
           passEnds == Len(up) = 1
                       /\ parent.pos + 1 = Len(Payload(shape, parent))
       IN  /\ nodes' = r.nodes
           /\ breadcrumbs' = r.breadcrumbs
           /\ status' = r.status
           /\ IF r.status # "ok"
              THEN UNCHANGED <<frames, passes>>
              ELSE /\ frames' = [up EXCEPT ![Len(up)].pos =
                                   IF passEnds THEN 0 ELSE @ + 1]
                   /\ passes' = IF passEnds THEN passes + 1 ELSE passes
    /\ ret' = NoReturn
    /\ UNCHANGED <<opened, shape, obedient, handed, done>>

NextWalk ==
    \/ WalkOpen
    \/ WalkNext
    \/ WalkClose
    \/ AllComplete

SpecWalk == InitWalk /\ [][NextWalk]_vars

----------------------------------------------------------------------------
(* Properties *)

\* node with id i of the current table
Node(i) == nodes[i + 1]

NodeIds == {i - 1 : i \in DOMAIN nodes}

\* the types with exactly one variant that holds the enum itself
SelfRefShapes == {"selflast", "selffirst", "selfchild"}

(***************************************************************************)
(* C1  Recursion termination.  For a directly self-referential enum walked *)
(* by a sampler that realizes the variant next_variant_index returned, the *)
(* open depth stays below the model's depth bound and, once MaxPasses      *)
(* passes have been made, all_complete() is true.                          *)
(***************************************************************************)
C1_RecursionTerminates ==
    (shape \in SelfRefShapes /\ obedient) =>
        /\ Len(breadcrumbs) < MaxWalkDepth
        /\ (AtRest /\ passes = MaxPasses => all_complete(nodes) = "true")

(***************************************************************************)
(* C1, the table of test_enum_tracker_handles_recursion's type after two   *)
(* passes: enum1 waits in Completion at cursor 0 for the child registered  *)
(* there, which is enum1 itself.  Every later pass ends in this same       *)
(* table, so no number of passes makes all_complete() true.                *)
(***************************************************************************)
SelfLastStuckTable ==
    << [name |-> "enum1", this |-> 0, index |-> 0, max_index |-> 1,
        children |-> (0 :> 0), state |-> "Completion",
        recursive_variants |-> <<0>>],
       [name |-> "enum1child1", this |-> 1, index |-> 0, max_index |-> 0,
        children |-> NoChildren, state |-> "Completed",
        recursive_variants |-> <<>>] >>

C1_SelfLastStuck ==
    (shape = "selflast" /\ obedient /\ AtRest /\ passes >= 2) =>
        /\ nodes = SelfLastStuckTable
        /\ all_complete(nodes) = "false"

(***************************************************************************)
(* C2  Coverage soundness.  Whenever all_complete() is true at the end of  *)
(* a pass, every node of the table has been handed each of its variant     *)
(* indices 0..max_index by next_variant_index.                             *)
(***************************************************************************)
C2_CoverageSound ==
    (obedient /\ AtRest /\ passes >= 1 /\ status = "ok"
       /\ all_complete(nodes) = "true") =>
        \A i \in NodeIds : handed[Node(i).name] = 0..Node(i).max_index

(***************************************************************************)
(* C3  Node::complete is safe to call in every state a sampler that        *)
(* realizes the returned variant can reach: evaluated on any node of the   *)
(* table it terminates with a boolean.                                     *)
(***************************************************************************)
C3_CompleteIsTotal ==
    obedient => \A i \in NodeIds : complete(nodes, i, {}) \in {"true", "false"}

(***************************************************************************)
(* C4  Identity stability.  No two nodes of the table have the same name,  *)
(* every node's `this` is its position, and the table is as long as the    *)
(* number of distinct names ever passed to open_node: opening a name again *)
(* never adds a node.                                                      *)
(***************************************************************************)
C4_IdentityStable ==
    /\ \A i, j \in NodeIds : Node(i).name = Node(j).name => i = j
    /\ \A i \in NodeIds : Node(i).this = i
    /\ Len(nodes) = Cardinality(opened)

\* both names were opened again and again until both nodes are Completed
C4_Witness ==
    /\ Len(nodes) = 2
    /\ breadcrumbs = <<>>
    /\ \A i \in NodeIds : Node(i).state = "Completed"

(***************************************************************************)
(* C10  Every node's cursor stays within 0..max_index, and so does every   *)
(* value next_variant_index returns for the active node.                   *)
(***************************************************************************)
C10_CursorInRange ==
    /\ \A i \in NodeIds : 0 <= Node(i).index /\ Node(i).index <= Node(i).max_index
    /\ ret.call = "next_variant_index" =>
          /\ 0 <= ret.value
          /\ ret.value <= Node(Last(breadcrumbs)).max_index

\* next_variant_index has returned the cursor of a node that the recursion
\* guard advanced and that has gone through the Discovery-to-Completion reset
C10_Witness ==
    /\ ret.call = "next_variant_index"
    /\ LET n == Node(Last(breadcrumbs)) IN
         /\ n.recursive_variants # <<>>
         /\ n.state = "Completion"
         /\ n.index = n.max_index
         /\ n.max_index > 0

(***************************************************************************)
(* C5  Two-phase necessity.  For a one-variant root whose payload holds a  *)
(* two-variant enum, all_complete() is false in every state from the first *)
(* open_node until two full passes have been made (so also after exactly   *)
(* one pass), and true at the end of the third pass and of every later one.*)
(***************************************************************************)
C5_TwoPhase ==
    shape = "twophase" =>
        /\ (passes < 2 /\ nodes # <<>>) => all_complete(nodes) = "false"
        /\ (AtRest /\ passes >= 3) => all_complete(nodes) = "true"

\* the third pass has ended and all_complete() has just returned true
C5_Witness ==
    /\ shape = "twophase"
    /\ AtRest
    /\ passes = 3
    /\ ret = [call |-> "all_complete", value |-> TRUE]

\* basic_tree with enum1, enum1child2 and enum1child2child1 still in
\* Completion: the table at the end of the third pass
TreeAfterPass3 ==
    [i \in 1..4 |-> IF basic_tree[i].name = "enum1child1"
                    THEN basic_tree[i]
                    ELSE [basic_tree[i] EXCEPT !.state = "Completion"]]

(***************************************************************************)
(* C6  Concrete scenario, as the spec states it: all_complete() is false   *)
(* after passes 1 and 2 and true after pass 3, and the 4th walk leaves the *)
(* 4-node table identical to the table after pass 3.                       *)
(***************************************************************************)
C6_Scenario ==
    (shape = "tree" /\ obedient /\ AtRest) =>
        /\ passes \in {1, 2} => all_complete(nodes) = "false"
        /\ passes = 3 => all_complete(nodes) = "true"
        /\ passes = 4 => nodes = TreeAfterPass3

(***************************************************************************)
(* C6, amended.  all_complete() is false after passes 1 and 2 and true     *)
(* after pass 3; the 4th walk adds no node and leaves every node's cursor, *)
(* children and recursive_variants as after pass 3, but moves enum1,       *)
(* enum1child2 and enum1child2child1 from Completion to Completed; from    *)
(* pass 4 on the table is basic_tree and does not change.                  *)
(***************************************************************************)
C6_ScenarioAmended ==
    (shape = "tree" /\ obedient /\ AtRest) =>
        /\ passes \in {1, 2} => all_complete(nodes) = "false"
        /\ passes = 3 => all_complete(nodes) = "true" /\ nodes = TreeAfterPass3
        /\ passes >= 4 => all_complete(nodes) = "true" /\ nodes = basic_tree

\* the 4th walk has ended
C6_Witness ==
    /\ shape = "tree"
    /\ obedient
    /\ AtRest
    /\ passes = 4
    /\ nodes = basic_tree

(***************************************************************************)
(* C7  Re-walk idempotence.  Once every node of the enum1 tree is          *)
(* Completed, no step of a further walk of the tree, whichever variants    *)
(* the sampler realizes, changes the node table or fails, and every walk   *)
(* ends with an empty open stack.                                          *)
(***************************************************************************)
C7_RewalkIdempotent ==
    [][(/\ shape = "tree"
        /\ Len(nodes) = 4
        /\ \A i \in NodeIds : Node(i).state = "Completed")
       => /\ nodes' = nodes
          /\ status' = "ok"
          /\ AtRest' => breadcrumbs' = <<>>]_vars

\* the replay of the test's trace: the table is basic_tree (enum1's cursor
\* is 1) and the walk is inside enum1child1, the payload of variant 0
C7_Witness ==
    /\ shape = "tree"
    /\ nodes = basic_tree
    /\ breadcrumbs = <<0, 1>>
    /\ status = "ok"

PhaseRank(state) ==
    CASE state = "Discovery" -> 0
      [] state = "Completion" -> 1
      [] state = "Completed" -> 2

\* no node's phase moves backward, no cursor decreases within a phase
NoRegress ==
    /\ Len(nodes') >= Len(nodes)
    /\ \A i \in DOMAIN nodes :
         /\ PhaseRank(nodes'[i].state) >= PhaseRank(nodes[i].state)
         /\ nodes'[i].state = nodes[i].state => nodes'[i].index >= nodes[i].index

\* close_node returns, called on an active node that is not Completed
ClosesUnfinished ==
    /\ Close
    /\ breadcrumbs # <<>>
    /\ Node(Last(breadcrumbs)).state # "Completed"

(***************************************************************************)
(* C8  Monotonic progress, as the spec states it: every close_node of a    *)
(* node that is not Completed increases its cursor or moves its phase      *)
(* forward; no step moves a phase backward or decreases a cursor within a  *)
(* phase.                                                                  *)
(***************************************************************************)
C8_MonotonicProgress ==
    [][/\ NoRegress
       /\ (ClosesUnfinished /\ status' = "ok") =>
            LET id == Last(breadcrumbs) + 1 IN
            \/ nodes'[id].index > nodes[id].index
            \/ PhaseRank(nodes'[id].state) > PhaseRank(nodes[id].state)]_vars

(***************************************************************************)
(* C8, amended.  Every close_node of a node that is not Completed          *)
(* increases its cursor, or moves its phase forward, or leaves the node    *)
(* unchanged; it leaves it unchanged only when the node is in Completion   *)
(* and the child registered at its cursor is not complete, or when the     *)
(* completeness evaluation does not terminate and the call aborts.  No     *)
(* step moves a phase backward or decreases a cursor within a phase.       *)
(***************************************************************************)
C8_ProgressOrWait ==
    [][/\ NoRegress
       /\ ClosesUnfinished =>
            LET id == Last(breadcrumbs) + 1
                active == nodes[id]
            IN  \/ /\ nodes'[id].index > active.index
                   /\ nodes'[id].state = active.state
                \/ PhaseRank(nodes'[id].state) > PhaseRank(active.state)
                \/ /\ nodes' = nodes
                   /\ \/ status' = "overflow"
                      \/ /\ active.state = "Completion"
                         /\ active.index \in DOMAIN active.children
                         /\ complete(nodes, active.children[active.index], {})
                              = "false"]_vars

\* between passes: a node waits in Completion at a cursor whose child is not
\* complete, after having advanced within Completion before
C8_Witness ==
    /\ breadcrumbs = <<>>
    /\ status = "ok"
    /\ \E i \in NodeIds :
         /\ Node(i).state = "Completion"
         /\ Node(i).index > 0
         /\ Node(i).index \in DOMAIN Node(i).children
         /\ complete(nodes, Node(i).children[Node(i).index], {}) = "false"

(***************************************************************************)
(* C9  Completed is frozen: no step changes the cursor, the children, the  *)
(* recursive_variants or the phase of a node whose phase is Completed.     *)
(***************************************************************************)
C9_CompletedFrozen ==
    [][\A i \in DOMAIN nodes :
         nodes[i].state = "Completed" => nodes'[i] = nodes[i]]_vars

\* the call open_node(name, max_index) is made
Opens(name, max_index) == Open(name, max_index)

(***************************************************************************)
(* C11  Inconsistent reuse is detected: open_node(name, m2) for a name     *)
(* whose node was created with max_index m1 # m2 does not return           *)
(* normally.                                                               *)
(***************************************************************************)
C11_InconsistentReuseDetected ==
    [][\A name \in Names, m2 \in 0..MaxVariant :
         (/\ Opens(name, m2)
          /\ node_exists(nodes, name)
          /\ nodes[position(nodes, name) + 1].max_index # m2)
         => status' # "ok"]_vars

(***************************************************************************)
(* C12  Protocol misuse fails fast: close_node or next_variant_index with  *)
(* an empty open stack panics, and neither the node table nor the open     *)
(* stack has changed when it does.                                         *)
(***************************************************************************)
C12_MisuseFailsFast ==
    [][(breadcrumbs = <<>> /\ (Close \/ NextVariantIndex))
       => /\ status' = "panic"
          /\ nodes' = nodes
          /\ breadcrumbs' = breadcrumbs]_vars

\* a panic with a single node in the table: open_node panics only after
\* appending a second node, so close_node or next_variant_index panicked
C12_Witness ==
    /\ status = "panic"
    /\ Len(nodes) = 1
    /\ breadcrumbs = <<>>

(***************************************************************************)
(* C13  A tracker on which open_node was never called reports              *)
(* all_complete() = true, and is still empty after the call.               *)
(***************************************************************************)
C13_FreshIsComplete ==
    (opened = {} /\ ret.call = "all_complete")
    => /\ ret.value = TRUE
       /\ nodes = <<>>
       /\ breadcrumbs = <<>>
       /\ status = "ok"

\* all_complete() has returned on a tracker nothing was ever opened on
C13_Witness ==
    /\ opened = {}
    /\ ret.call = "all_complete"

\* open_node(name, ..) resolves to a node that is already on the open stack
\* and whose cursor is not in its recursive_variants
Reenters(name) ==
    /\ node_exists(nodes, name)
    /\ position(nodes, name) \in Range(breadcrumbs)
    /\ LET n == Node(position(nodes, name)) IN
         n.index \notin Range(n.recursive_variants)

(***************************************************************************)
(* C14  The recursion guard marks the self-referential variant: after the  *)
(* open, the cursor value c the node had when it was re-entered is in its  *)
(* recursive_variants, children[c] is the node's own id, no child entry of *)
(* another variant has been overwritten, and the cursor has taken one      *)
(* advance step.                                                           *)
(***************************************************************************)
C14_GuardMarksSelfVariant ==
    [][\A name \in Names, m \in 0..MaxVariant :
         (Opens(name, m) /\ Reenters(name)) =>
            LET id == position(nodes, name)
                before == nodes[id + 1]
                after == nodes'[id + 1]
                c == before.index
            IN  /\ c \in Range(after.recursive_variants)
                /\ c \in DOMAIN after.children
                /\ after.children[c] = id
                /\ \A k \in DOMAIN before.children \ {c} :
                      /\ k \in DOMAIN after.children
                      /\ after.children[k] = before.children[k]
                /\ after.index = advance_index(before, TRUE).index
                /\ after.state = advance_index(before, TRUE).state]_vars

(***************************************************************************)
(* C15  open_node completes normally and pushes the resolved node id, also *)
(* for a new name opened with an empty open stack on a table that already  *)
(* holds a node.                                                           *)
(***************************************************************************)
C15_OpenCompletes ==
    [][\A name \in Names, m \in 0..MaxVariant :
         Opens(name, m) =>
            /\ status' = "ok"
            /\ breadcrumbs' = Append(breadcrumbs, position(nodes', name))]_vars

(***************************************************************************)
(* C16  close_node on a node that is in Completion, has at least one       *)
(* recorded child and is not itself complete.  If a child is registered    *)
(* at the node's cursor and that child is not complete, the node is left   *)
(* as it is; if that child is complete, or no child is registered at the   *)
(* cursor, the node takes exactly one advance step (the cursor moves up    *)
(* by one below max_index; at max_index the phase becomes Completed).  In  *)
(* every case the call returns, exactly the top of the open stack is       *)
(* popped and no other node changes.                                       *)
(***************************************************************************)
ClosesWaiting ==
    /\ Close
    /\ breadcrumbs # <<>>
    /\ LET a == Node(Last(breadcrumbs)) IN
         /\ a.state = "Completion"
         /\ a.children # NoChildren
         /\ complete(nodes, a.this, {}) = "false"

\* one advance step of a node in Completion
OneStep(a) ==
    IF a.index < a.max_index
    THEN [a EXCEPT !.index = a.index + 1]
    ELSE [a EXCEPT !.state = "Completed"]

C16_CloseInCompletion ==
    [][ClosesWaiting =>
         LET id == Last(breadcrumbs)
             a == Node(id)
         IN  /\ status' = "ok"
             /\ breadcrumbs' = Front(breadcrumbs)
             /\ Len(nodes') = Len(nodes)
             /\ \A i \in DOMAIN nodes \ {id + 1} : nodes'[i] = nodes[i]
             /\ IF /\ a.index \in DOMAIN a.children
                   /\ complete(nodes, a.children[a.index], {}) # "true"
                THEN nodes'[id + 1] = a
                ELSE nodes'[id + 1] = OneStep(a)]_vars

\* the same statement for the closes in which no evaluation of complete
\* runs into a node that holds itself as a child
C16_CloseInCompletionNoLoop ==
    [][(/\ ClosesWaiting
        /\ LET a == Node(Last(breadcrumbs)) IN
             a.index \in DOMAIN a.children
                => complete(nodes, a.children[a.index], {}) # "overflow")
       => LET id == Last(breadcrumbs)
              a == Node(id)
          IN  /\ status' = "ok"
              /\ breadcrumbs' = Front(breadcrumbs)
              /\ Len(nodes') = Len(nodes)
              /\ \A i \in DOMAIN nodes \ {id + 1} : nodes'[i] = nodes[i]
              /\ IF /\ a.index \in DOMAIN a.children
                    /\ complete(nodes, a.children[a.index], {}) = "false"
                 THEN nodes'[id + 1] = a
                 ELSE nodes'[id + 1] = OneStep(a)]_vars

C18_ReuseResetsNothing ==
    [][\A name \in Names, m \in 0..MaxVariant :
         (/\ Opens(name, m)
          /\ node_exists(nodes, name)
          /\ position(nodes, name) \notin Range(breadcrumbs))
         => /\ nodes' = nodes
            /\ breadcrumbs' = Append(breadcrumbs, position(nodes, name))
            /\ status' = "ok"]_vars

\* enum1child1, already swept once (Completion), is open again under enum1
\* with its cursor where the last close left it
C18_Witness ==
    /\ Len(nodes) = 2
    /\ breadcrumbs = <<0, 1>>
    /\ Node(1).state = "Completion"
    /\ Node(1).index = 1
    /\ Node(1).max_index = 2

(***************************************************************************)
(* C19  Discovery sweep order.  A node that is opened and closed once per  *)
(* pass and never re-entered while open hands out 0, 1, ..., max_index in  *)
(* successive passes, each index in exactly one pass, while it is in       *)
(* Discovery; the close made at cursor = max_index puts it in Completion   *)
(* with cursor 0, so the pass after that hands out 0 again.  Checked on    *)
(* the enums the sampler opens exactly once in every pass, whichever       *)
(* variant it realizes.                                                    *)
(***************************************************************************)
OncePerPass(s) ==
    CASE s = "tree" -> {"enum1"}
      [] s = "twophase" -> {"enum1", "enum1child1"}
      [] s = "siblings" -> {"enum1", "enum1child1", "enum1child2"}
      [] OTHER -> {}

C19_DiscoverySweep ==
    \A name \in OncePerPass(shape) :
       node_exists(nodes, name) =>
          LET n == Node(position(nodes, name))
              max == MaxIndexOf(shape, name)
          IN  /\ n.max_index = max
              \* the answer of next_variant_index in pass number passes + 1
              /\ (/\ Last(frames).name = name
                  /\ ret.call = "next_variant_index")
                 => /\ passes <= max =>
                         ret.value = passes /\ n.state = "Discovery"
                    /\ passes = max + 1 =>
                         ret.value = 0 /\ n.state = "Completion"
              \* the node between passes
              /\ AtRest
                 => /\ passes <= max =>
                         n.index = passes /\ n.state = "Discovery"
                    /\ passes = max + 1 =>
                         n.index = 0 /\ n.state = "Completion"

\* enum1child1 of "siblings" (three variants) is asked in the fourth pass
\* and hands out 0 again, now in Completion
C19_Witness ==
    /\ shape = "siblings"
    /\ passes = 3
    /\ Last(frames).name = "enum1child1"
    /\ ret = [call |-> "next_variant_index", value |-> 0]
    /\ handed["enum1child1"] = {0, 1, 2}

(***************************************************************************)
(* C20  Completion is stable.  Once all_complete() has returned true at    *)
(* the end of a pass (open stack empty), it returns true at the end of     *)
(* every later properly nested pass over the same type shape.              *)
(***************************************************************************)
\* stated for the sampler that builds the variant the tracker hands out:
\* after all_complete() has returned true at the end of a pass, every
\* later pass runs to its end, and all_complete() is true whenever the
\* open stack is empty again
C20_CompletionStable ==
    (obedient /\ done)
       => /\ status = "ok"
          /\ AtRest => all_complete(nodes) = "true"

\* the answers alone: whenever a later pass does reach its end, the
\* answer is still true
C20_AnswerNeverFalse ==
    (obedient /\ done /\ AtRest) => all_complete(nodes) = "true"

============================================================================
